---- MODULE Spec2Model ----
(***************************************************************************)
(* Model of netbox-containerlab: clab_generator.py (inventory, probe,      *)
(* harvest, LLDP collection, topology synthesis, deploy, summary).         *)
(*                                                                         *)
(* Strings that the code inspects character by character (device names,   *)
(* LLDP hostnames, interface names, endpoint strings) are sequences of     *)
(* one-character strings, so that startswith, lower, replace, "in" and     *)
(* sorted are computed as Python computes them.                            *)
(***************************************************************************)
EXTENDS Integers, Sequences, FiniteSets, TLC

(***************************************************************************)
(* Python str operations                                                   *)
(***************************************************************************)

\* The characters of the strings used, in code-point order (str comparison
\* in sorted() is by code point): - . / digits : upper-case _ lower-case.
CodePoints ==
  << "-", ".", "/", "0", "1", "2", ":",
     "A", "B", "E", "M", "_",
     "a", "b", "c", "e", "g", "h", "l", "m", "n", "o", "p", "r", "s", "t",
     "x", "z" >>

ord(c) == CHOOSE i \in 1..Len(CodePoints) : CodePoints[i] = c

\* str.lower() on one character
lower_char(c) ==
  CASE c = "A" -> "a"
    [] c = "B" -> "b"
    [] c = "E" -> "e"
    [] c = "M" -> "m"
    [] OTHER -> c

\* str.lower()
lower(s) == [i \in 1..Len(s) |-> lower_char(s[i])]

\* str.startswith(prefix)
startswith(s, prefix) ==
  /\ Len(prefix) <= Len(s)
  /\ SubSeq(s, 1, Len(prefix)) = prefix

\* sub in s
contains(s, sub) ==
  \E i \in 1..(Len(s) - Len(sub) + 1) : SubSeq(s, i, i + Len(sub) - 1) = sub

\* str.replace(old, new): every non-overlapping occurrence, left to right
RECURSIVE replace(_, _, _)
replace(s, old, new) ==
  IF s = <<>> THEN <<>>
  ELSE IF startswith(s, old)
       THEN new \o replace(SubSeq(s, Len(old) + 1, Len(s)), old, new)
       ELSE <<Head(s)>> \o replace(Tail(s), old, new)

\* s < t for str (lexicographic by code point)
RECURSIVE str_less(_, _)
str_less(s, t) ==
  IF t = <<>> THEN FALSE
  ELSE IF s = <<>> THEN TRUE
  ELSE IF Head(s) = Head(t) THEN str_less(Tail(s), Tail(t))
  ELSE ord(Head(s)) < ord(Head(t))

\* tuple(sorted((a, b)))
sorted_pair(a, b) == IF str_less(b, a) THEN <<b, a>> ELSE <<a, b>>

(***************************************************************************)
(* String literals of the code                                             *)
(***************************************************************************)
STR_Ethernet == <<"E", "t", "h", "e", "r", "n", "e", "t">>
STR_eth == <<"e", "t", "h">>
STR_ceos == <<"c", "e", "o", "s">>
STR_slash == <<"/">>
STR_underscore == <<"_">>
STR_colon == <<":">>

\* node_template_name = 'ceos-template'
node_template_name ==
  <<"c", "e", "o", "s", "-", "t", "e", "m", "p", "l", "a", "t", "e">>

(***************************************************************************)
(* Device names, LLDP hostnames and interface names of the model           *)
(***************************************************************************)
NAME_A == <<"A">>
NAME_B == <<"B">>
NAME_Ab == <<"A", "b">>
NAME_Ac == <<"A", "c">>

HINT_a == <<"a">>
HINT_ab == <<"a", "b">>
HINT_acx == <<"a", "c", ".", "x">>
HINT_zz == <<"z", "z">>

IF_Ethernet1 == STR_Ethernet \o <<"1">>
IF_Ethernet2 == STR_Ethernet \o <<"2">>
IF_Ethernet1s1 == STR_Ethernet \o <<"1", "/", "1">>
IF_Management1 == <<"M", "a", "n", "a", "g", "e", "m", "e", "n", "t", "1">>
IF_eth1s1 == <<"e", "t", "h", "1", "/", "1">>

\* None, for a str-valued expression
NoName == <<>>

(***************************************************************************)
(* map_interface and the body of generate_topology_file's loop             *)
(***************************************************************************)

\* Faulty variant of map_interface: every name is returned as it is.
map_interface_unmapped(node_template, interface_name) == interface_name

\* map_interface(node_template, interface_name)  (lines 180-184)
map_interface(node_template, interface_name) ==
  IF contains(node_template, STR_ceos) /\ startswith(interface_name, STR_Ethernet)
  THEN replace(replace(interface_name, STR_Ethernet, STR_eth), STR_slash, STR_underscore)
  ELSE interface_name

\* Faulty variant of name_matches: only a hint that extends the name matches.
name_matches_one_way(name, neighbor_name_from_lldp) ==
  startswith(lower(neighbor_name_from_lldp), lower(name))

\* The generator's condition at line 206, for one name of netbox_device_names
name_matches(name, neighbor_name_from_lldp) ==
  \/ startswith(lower(neighbor_name_from_lldp), lower(name))
  \/ startswith(lower(name), lower(neighbor_name_from_lldp))

\* next((name for name in netbox_device_names if ...), None): the first
\* matching name in the set's iteration order, which is fixed while the set
\* is not modified and is given here as the sequence names_in_order.
RECURSIVE canonical_neighbor_name(_, _)
canonical_neighbor_name(names_in_order, neighbor_name_from_lldp) ==
  IF names_in_order = <<>> THEN NoName
  ELSE IF name_matches(Head(names_in_order), neighbor_name_from_lldp)
       THEN Head(names_in_order)
       ELSE canonical_neighbor_name(Tail(names_in_order), neighbor_name_from_lldp)

\* f"{device}:{interface}"
endpoint(device, interface) == device \o STR_colon \o interface

\* Faulty variant of link_key: one key for every link.
link_key_shared(endpoint_a, endpoint_b) == << >>

\* Faulty variant of link_key: the pair as reported, not sorted.
link_key_unsorted(endpoint_a, endpoint_b) == <<endpoint_a, endpoint_b>>

\* link_tuple = tuple(sorted((...)))  (line 211)
link_key(endpoint_a, endpoint_b) == sorted_pair(endpoint_a, endpoint_b)

\* Faulty variant of lacks_marker: a record passes when either mapped name
\* has the marker.
lacks_marker_both(mapped_local_int, mapped_neighbor_int) ==
  ~contains(mapped_local_int, STR_eth) /\ ~contains(mapped_neighbor_int, STR_eth)

\* if "eth" not in mapped_local_int or "eth" not in mapped_neighbor_int  (line 210)
lacks_marker(mapped_local_int, mapped_neighbor_int) ==
  ~contains(mapped_local_int, STR_eth) \/ ~contains(mapped_neighbor_int, STR_eth)

\* One iteration of the innermost loop (lines 204-214) on the record
\* {hostname, port} found under local_interface of local_device.  links is
\* [final_links, processed_links]; the result is their new values.
link_loop_body(links, names_in_order, unreachable, local_device, local_interface, hostname, port) ==
  LET canonical == canonical_neighbor_name(names_in_order, hostname)
      mapped_local_int == map_interface(node_template_name, local_interface)
      mapped_neighbor_int == map_interface(node_template_name, port)
      endpoint_a == endpoint(local_device, mapped_local_int)
      endpoint_b == endpoint(canonical, mapped_neighbor_int)
      link_tuple == link_key(endpoint_a, endpoint_b)
  IN  IF canonical = NoName \/ canonical \in unreachable THEN links
      ELSE IF lacks_marker(mapped_local_int, mapped_neighbor_int) THEN links
      ELSE IF link_tuple \notin links.processed_links
           THEN [final_links |->
                   Append(links.final_links, [endpoints |-> <<endpoint_a, endpoint_b>>]),
                 processed_links |-> links.processed_links \cup {link_tuple}]
           ELSE links

(***************************************************************************)
(* Bounds and program constants                                            *)
(***************************************************************************)

\* Config.MAX_WORKERS
MAX_WORKERS == 10

\* The inventory returns at most this many devices.
MaxDevices == 3

\* The synthesizer is fed at most this many items (skipped entries of
\* links_data and neighbor records).
MaxItems == 2

(***************************************************************************)
(* The site of the run: device records and what their LLDP agents report   *)
(***************************************************************************)

\* The device names an inventory can hold
AllNames == {NAME_A, NAME_B, NAME_Ab, NAME_Ac}

neighbor(hostname, port) == [hostname |-> hostname, port |-> port]

\* device.get_lldp_neighbors() of a device whose LLDP agent has neighbors:
\* a dict from local interface to a list of {hostname, port}, here in the
\* dict's iteration order.  The cabling: A Ethernet2 - B Ethernet1, and
\* Ab Ethernet1/1 - Ac Ethernet2, whose agents announce themselves as
\* "ab" and "ac.x"; Ab's management port hears a device "zz" that the
\* inventory does not hold.
lldp_neighbors_of(device_name) ==
  CASE device_name = NAME_A ->
         << [interface |-> IF_Ethernet2,
             neighbors |-> <<neighbor(NAME_B, IF_Ethernet1)>>] >>
    [] device_name = NAME_B ->
         << [interface |-> IF_Ethernet1,
             neighbors |-> <<neighbor(NAME_A, IF_Ethernet2)>>] >>
    [] device_name = NAME_Ab ->
         << [interface |-> IF_Management1,
             neighbors |-> <<neighbor(HINT_zz, IF_Ethernet1)>>],
            [interface |-> IF_Ethernet1s1,
             neighbors |-> <<neighbor(HINT_acx, IF_Ethernet2)>>] >>
    [] device_name = NAME_Ac ->
         << [interface |-> IF_Ethernet2,
             neighbors |-> <<neighbor(HINT_ab, IF_Ethernet1s1)>>] >>
    [] OTHER -> << >>

\* What get_lldp_neighbors() can return for a device: its neighbors, or an
\* empty dict.
LldpReports(device_name) == {lldp_neighbors_of(device_name), << >>}

VARIABLES
  netbox,                 \* what the inventory query does: "ok", "nosite", "error"
  site_devices,           \* names of the devices the query returns
  primary_ip,             \* names of the devices whose primary_ip is set
  skip_connectivity_test, \* args.skip_connectivity_test
  mainpc,                 \* where main() is
  devices,                \* main's local `devices`, once it is a non-empty list
  devices_result,         \* "unset", "None", "empty", "list"
  unreachable_devices,    \* the global set
  fail_stage,             \* history: the stage (1 probe, 2 harvest, 3 LLDP) whose
                          \* task first added the device to the set, 0 if none
  probe, cfg, info, lldp, \* per device: where its task of each kind is
  sessions,               \* open management sessions, <<task kind, device>>
  config_files, sn_files, \* devices with a .cfg / .txt file written
  reachable_devices,      \* provision_node_files' local list (line 157)
  future_to_device,       \* devices submitted for LLDP (lines 315-320)
  lldp_result,            \* per device: what its LLDP future holds
  folded,                 \* devices whose future as_completed has yielded
  all_links,              \* main's dict, in insertion order
  name_order,             \* iteration order of netbox_device_names
  final_links, processed_links, \* generate_topology_file's locals
  syn_pos,                \* items the synthesizer has consumed
  syn_record,             \* the loop's locals: the record of the last iteration
  topo_written, topo_nodes, topo_links, \* the topology file
  deploy_status, inspect_status,       \* what the containerlab commands did
  tool_report,            \* which error deploy_containerlab printed
  cleanup,                \* the run of cleanup.py's main()
  summary_printed,        \* print_final_summary ran
  outcome                 \* how main() ended: "running", "returned", "ok", "raised"

vars == << netbox, site_devices, primary_ip, skip_connectivity_test, mainpc,
           devices, devices_result, unreachable_devices, fail_stage,
           probe, cfg, info, lldp, sessions, config_files, sn_files,
           reachable_devices, future_to_device, lldp_result, folded, all_links,
           name_order, final_links, processed_links, syn_pos, syn_record,
           topo_written, topo_nodes, topo_links, deploy_status, inspect_status,
           tool_report, cleanup, summary_printed, outcome >>

inputVars == << netbox, site_devices, primary_ip, skip_connectivity_test >>
taskVars == << probe, cfg, info, lldp >>
fileVars == << config_files, sn_files >>
lldpVars == << future_to_device, lldp_result, folded, all_links >>
synthVars == << name_order, final_links, processed_links, syn_pos, syn_record >>
topoVars == << topo_written, topo_nodes, topo_links >>
endVars == << deploy_status, inspect_status, tool_report, cleanup, summary_printed, outcome >>

\* The loop's locals before the first iteration
NoRecord == [local_device |-> NoName, local_interface |-> NoName, hostname |-> NoName, port |-> NoName]

\* cleanup.py has not been started
NoCleanup == [pc |-> "notrun"]

\* A future that holds no dict
NoResult == [none |-> TRUE, data |-> << >>]

(***************************************************************************)
(* Shared pieces of the per-device tasks                                   *)
(***************************************************************************)

\* Where a task can be: not submitted, waiting for a worker, between its
\* open() and its next call, and ended: returned, ended in its except clause
\* after open() or after a later call failed, or ended by an exception that
\* no clause of the task caught.
TaskIdle == [d \in AllNames |-> "idle"]

Ended == {"done", "open_failed", "fetch_failed", "raised"}

\* The stage whose tasks are running
StageNo ==
  CASE mainpc = "probe" -> 1
    [] mainpc = "harvest" -> 2
    [] mainpc = "lldp" -> 3
    [] OTHER -> 0

\* Faulty variant of is_unreachable: the test never finds the device.
is_unreachable_never(device_name) == FALSE

\* device.name in unreachable_devices
is_unreachable(device_name) == device_name \in unreachable_devices

\* Faulty variant of mark_unreachable: the insertion replaces the set.
mark_unreachable_overwrite(device_name) ==
  /\ unreachable_devices' = {device_name}
  /\ fail_stage' = IF fail_stage[device_name] = 0
                   THEN [fail_stage EXCEPT ![device_name] = StageNo]
                   ELSE fail_stage

\* unreachable_devices.add(device.name)
mark_unreachable(device_name) ==
  /\ unreachable_devices' = unreachable_devices \cup {device_name}
  /\ fail_stage' = IF fail_stage[device_name] = 0
                   THEN [fail_stage EXCEPT ![device_name] = StageNo]
                   ELSE fail_stage

\* Tasks that hold a worker of the executor between two of their steps
Running ==
  Cardinality({d \in DOMAIN probe : probe[d] = "open"})
    + Cardinality({d \in DOMAIN cfg : cfg[d] = "open"})
    + Cardinality({d \in DOMAIN info : info[d] = "open"})
    + Cardinality({d \in DOMAIN lldp : lldp[d] = "open"})

\* Faulty variant of worker_free: the executor starts every task at once.
worker_free_always == TRUE

\* ThreadPoolExecutor(max_workers=Config.MAX_WORKERS): a queued task starts
\* only on a free worker.
worker_free == Running < MAX_WORKERS

\* Faulty variant of finally_close: the session is left as it is.
finally_skipped(kind, device_name) == sessions

\* finally: if eos_device.is_alive(): eos_device.close()
\* The sessions left open after it.
finally_close(kind, device_name) == sessions \ {<<kind, device_name>>}

(***************************************************************************)
(* main(), up to the harvest                                               *)
(***************************************************************************)

\* What get_devices_from_site returns (lines 38-65): None when the site is
\* not found or the query raises, [] when no device matches, else the list
get_devices_from_site ==
  IF netbox # "ok" THEN "None" ELSE IF site_devices = {} THEN "empty" ELSE "list"

\* Faulty variant of not_devices: only None ends the run.
not_devices_none_only(result) == result = "None"

\* `not devices` of line 303
not_devices(result) == result \in {"None", "empty"}

\* devices = get_devices_from_site(...); if not devices: return; and, unless
\* skipped, the submission of the probes (lines 302-306, 140-141)
GetDevices ==
  /\ mainpc = "inventory"
  /\ devices_result' = get_devices_from_site
  /\ IF not_devices(get_devices_from_site)
     THEN /\ mainpc' = "done" /\ outcome' = "returned"
          /\ UNCHANGED <<devices, probe>>
     ELSE /\ devices' = site_devices
          /\ outcome' = outcome
          /\ IF skip_connectivity_test
             THEN mainpc' = "provision" /\ probe' = probe
             ELSE /\ mainpc' = "probe"
                  /\ probe' = [d \in AllNames |->
                                 IF d \in site_devices THEN "queued" ELSE "idle"]
  /\ UNCHANGED <<inputVars, unreachable_devices, fail_stage, cfg, info, lldp,
                 sessions, fileVars, reachable_devices, lldpVars, synthVars,
                 topoVars, deploy_status, inspect_status, tool_report, cleanup,
                 summary_printed>>

\* test_device_connectivity up to eos_device.open() (lines 69-81)
ProbeStart(d) ==
  /\ mainpc = "probe" /\ probe[d] = "queued" /\ worker_free
  /\ IF d \notin primary_ip
     THEN /\ mark_unreachable(d)
          /\ probe' = [probe EXCEPT ![d] = "done"]
          /\ sessions' = sessions
     ELSE \E opened \in BOOLEAN :
            IF opened
            THEN /\ sessions' = sessions \cup {<<"probe", d>>}
                 /\ probe' = [probe EXCEPT ![d] = "open"]
                 /\ UNCHANGED <<unreachable_devices, fail_stage>>
            ELSE /\ mark_unreachable(d)
                 /\ probe' = [probe EXCEPT ![d] = "open_failed"]
                 /\ sessions' = sessions
  /\ UNCHANGED <<inputVars, mainpc, devices, devices_result, cfg, info, lldp,
                 fileVars, reachable_devices, lldpVars, synthVars, topoVars, endVars>>

\* eos_device.close(); return True (lines 82-84)
ProbeClose(d) ==
  /\ mainpc = "probe" /\ probe[d] = "open"
  /\ sessions' = sessions \ {<<"probe", d>>}
  /\ probe' = [probe EXCEPT ![d] = "done"]
  /\ UNCHANGED <<inputVars, mainpc, devices, devices_result, unreachable_devices,
                 fail_stage, cfg, info, lldp, fileVars, reachable_devices,
                 lldpVars, synthVars, topoVars, endVars>>

\* The executor of test_device_connectivity_batch is left (lines 140-144)
ProbeJoin ==
  /\ mainpc = "probe"
  /\ \A d \in devices : probe[d] \in Ended
  /\ mainpc' = "provision"
  /\ probe' = TaskIdle
  /\ UNCHANGED <<inputVars, devices, devices_result, unreachable_devices, fail_stage,
                 cfg, info, lldp, sessions, fileVars, reachable_devices, lldpVars,
                 synthVars, topoVars, endVars>>

(***************************************************************************)
(* provision_node_files and its tasks                                      *)
(***************************************************************************)

\* reachable_devices = [...]; both executor.map calls (lines 157-160)
Provision ==
  /\ mainpc = "provision"
  /\ LET reachable == {d \in devices : ~is_unreachable(d)}
     IN /\ reachable_devices' = reachable
        /\ cfg' = [d \in DOMAIN cfg |-> IF d \in reachable THEN "queued" ELSE "idle"]
        /\ info' = [d \in DOMAIN info |-> IF d \in reachable THEN "queued" ELSE "idle"]
  /\ mainpc' = "harvest"
  /\ UNCHANGED <<inputVars, devices, devices_result, unreachable_devices, fail_stage,
                 probe, lldp, sessions, fileVars, lldpVars, synthVars, topoVars, endVars>>

\* get_device_config up to eos_device.open() (lines 92-98).  With no
\* primary_ip, line 93 raises AttributeError outside the try: the task ends
\* with the exception in its future, which nothing reads.
CfgStart(d) ==
  /\ mainpc = "harvest" /\ cfg[d] = "queued" /\ worker_free
  /\ IF is_unreachable(d)
     THEN /\ cfg' = [cfg EXCEPT ![d] = "done"]
          /\ UNCHANGED <<unreachable_devices, fail_stage, sessions>>
     ELSE IF d \notin primary_ip
     THEN /\ cfg' = [cfg EXCEPT ![d] = "raised"]
          /\ UNCHANGED <<unreachable_devices, fail_stage, sessions>>
     ELSE \E opened \in BOOLEAN :
            IF opened
            THEN /\ sessions' = sessions \cup {<<"cfg", d>>}
                 /\ cfg' = [cfg EXCEPT ![d] = "open"]
                 /\ UNCHANGED <<unreachable_devices, fail_stage>>
            ELSE /\ mark_unreachable(d)
                 /\ sessions' = finally_close("cfg", d)
                 /\ cfg' = [cfg EXCEPT ![d] = "open_failed"]
  /\ UNCHANGED <<inputVars, mainpc, devices, devices_result, probe, info, lldp,
                 fileVars, reachable_devices, lldpVars, synthVars, topoVars, endVars>>

\* get_config, the write of <name>.cfg, except and finally (lines 99-108)
CfgFetch(d) ==
  /\ mainpc = "harvest" /\ cfg[d] = "open"
  /\ \E fetched \in BOOLEAN :
       IF fetched
       THEN /\ config_files' = config_files \cup {d}
            /\ cfg' = [cfg EXCEPT ![d] = "done"]
            /\ UNCHANGED <<unreachable_devices, fail_stage>>
       ELSE /\ mark_unreachable(d)
            /\ cfg' = [cfg EXCEPT ![d] = "fetch_failed"]
            /\ config_files' = config_files
  /\ sessions' = finally_close("cfg", d)
  /\ UNCHANGED <<inputVars, mainpc, devices, devices_result, probe, info, lldp,
                 sn_files, reachable_devices, lldpVars, synthVars, topoVars, endVars>>

\* get_device_info up to eos_device.open() (lines 112-118)
InfoStart(d) ==
  /\ mainpc = "harvest" /\ info[d] = "queued" /\ worker_free
  /\ IF is_unreachable(d)
     THEN /\ info' = [info EXCEPT ![d] = "done"]
          /\ UNCHANGED <<unreachable_devices, fail_stage, sessions>>
     ELSE IF d \notin primary_ip
     THEN /\ info' = [info EXCEPT ![d] = "raised"]
          /\ UNCHANGED <<unreachable_devices, fail_stage, sessions>>
     ELSE \E opened \in BOOLEAN :
            IF opened
            THEN /\ sessions' = sessions \cup {<<"info", d>>}
                 /\ info' = [info EXCEPT ![d] = "open"]
                 /\ UNCHANGED <<unreachable_devices, fail_stage>>
            ELSE /\ mark_unreachable(d)
                 /\ sessions' = finally_close("info", d)
                 /\ info' = [info EXCEPT ![d] = "open_failed"]
  /\ UNCHANGED <<inputVars, mainpc, devices, devices_result, probe, cfg, lldp,
                 fileVars, reachable_devices, lldpVars, synthVars, topoVars, endVars>>

\* show version, the write of <name>.txt, except and finally (lines 119-133)
InfoFetch(d) ==
  /\ mainpc = "harvest" /\ info[d] = "open"
  /\ \E fetched \in BOOLEAN :
       IF fetched
       THEN /\ sn_files' = sn_files \cup {d}
            /\ info' = [info EXCEPT ![d] = "done"]
            /\ UNCHANGED <<unreachable_devices, fail_stage>>
       ELSE /\ mark_unreachable(d)
            /\ info' = [info EXCEPT ![d] = "fetch_failed"]
            /\ sn_files' = sn_files
  /\ sessions' = finally_close("info", d)
  /\ UNCHANGED <<inputVars, mainpc, devices, devices_result, probe, cfg, lldp,
                 config_files, reachable_devices, lldpVars, synthVars, topoVars, endVars>>

(***************************************************************************)
(* LLDP collection (main, lines 313-327) and get_lldp_neighbors_napalm     *)
(***************************************************************************)

\* Faulty variant of harvest_finished: the executor is left at once.
harvest_unjoined == TRUE

\* Leaving the with block of provision_node_files waits for every task of
\* both maps (lines 158-160)
harvest_finished ==
  \A d \in reachable_devices : cfg[d] \in Ended /\ info[d] \in Ended

\* Faulty variant of lldp_candidates: a future for every device.
lldp_candidates_all(devs) == devs

\* for device in devices if device.primary_ip and device.name not in
\* unreachable_devices  (line 319)
lldp_candidates(devs) == {d \in devs : d \in primary_ip /\ ~is_unreachable(d)}

\* The harvest executor is left and its tasks are gone with it, their
\* results unread; all_links = {}; one future per device with a primary_ip
\* that is not in unreachable_devices (lines 313-320)
Gather ==
  /\ mainpc = "harvest" /\ harvest_finished
  /\ LET submitted == lldp_candidates(devices)
     IN /\ future_to_device' = submitted
        /\ lldp' = [d \in AllNames |-> IF d \in submitted THEN "queued" ELSE "idle"]
  /\ all_links' = << >> /\ folded' = {}
  /\ cfg' = TaskIdle /\ info' = TaskIdle
  /\ mainpc' = "lldp"
  /\ UNCHANGED <<inputVars, devices, devices_result, unreachable_devices, fail_stage,
                 probe, sessions, fileVars, reachable_devices, lldp_result,
                 synthVars, topoVars, endVars>>

\* get_lldp_neighbors_napalm up to device.open() (lines 164-169)
LldpStart(d) ==
  /\ mainpc = "lldp" /\ lldp[d] = "queued" /\ worker_free
  /\ IF is_unreachable(d)
     THEN /\ lldp' = [lldp EXCEPT ![d] = "done"]
          /\ lldp_result' = [lldp_result EXCEPT ![d] = NoResult]
          /\ UNCHANGED <<unreachable_devices, fail_stage, sessions>>
     ELSE \E opened \in BOOLEAN :
            IF opened
            THEN /\ sessions' = sessions \cup {<<"lldp", d>>}
                 /\ lldp' = [lldp EXCEPT ![d] = "open"]
                 /\ UNCHANGED <<unreachable_devices, fail_stage, lldp_result>>
            ELSE /\ mark_unreachable(d)
                 /\ sessions' = finally_close("lldp", d)
                 /\ lldp' = [lldp EXCEPT ![d] = "open_failed"]
                 /\ lldp_result' = [lldp_result EXCEPT ![d] = NoResult]
  /\ UNCHANGED <<inputVars, mainpc, devices, devices_result, probe, cfg, info,
                 fileVars, reachable_devices, future_to_device, folded, all_links,
                 synthVars, topoVars, endVars>>

\* device.get_lldp_neighbors(), return, except and finally (lines 170-178)
LldpFetch(d) ==
  /\ mainpc = "lldp" /\ lldp[d] = "open"
  /\ \/ \E report \in LldpReports(d) :
          /\ lldp_result' = [lldp_result EXCEPT ![d] = [none |-> FALSE, data |-> report]]
          /\ lldp' = [lldp EXCEPT ![d] = "done"]
          /\ UNCHANGED <<unreachable_devices, fail_stage>>
     \/ /\ mark_unreachable(d)
        /\ lldp_result' = [lldp_result EXCEPT ![d] = NoResult]
        /\ lldp' = [lldp EXCEPT ![d] = "fetch_failed"]
  /\ sessions' = finally_close("lldp", d)
  /\ UNCHANGED <<inputVars, mainpc, devices, devices_result, probe, cfg, info,
                 fileVars, reachable_devices, future_to_device, folded, all_links,
                 synthVars, topoVars, endVars>>

\* One iteration of `for future in as_completed(...)` (lines 321-327):
\* if lldp_data: all_links[device_name] = lldp_data
Collect(d) ==
  /\ mainpc = "lldp" /\ d \in future_to_device /\ d \notin folded
  /\ lldp[d] \in Ended
  /\ folded' = folded \cup {d}
  /\ all_links' = IF ~lldp_result[d].none /\ lldp_result[d].data # << >>
                  THEN Append(all_links, [device |-> d, lldp |-> lldp_result[d].data])
                  ELSE all_links
  /\ UNCHANGED <<inputVars, mainpc, devices, devices_result, unreachable_devices,
                 fail_stage, taskVars, sessions, fileVars, reachable_devices,
                 future_to_device, lldp_result, synthVars, topoVars, endVars>>

(***************************************************************************)
(* generate_topology_file                                                  *)
(***************************************************************************)

\* The iteration orders a set of names can have
Orders(S) ==
  {f \in [1..Cardinality(S) -> S] : \A i, j \in 1..Cardinality(S) : f[i] = f[j] => i = j}

\* Faulty variant of topology_devices: the failure set is not consulted.
topology_devices_all(devs) == devs

\* reachable_devices = [device for device in devices if device.name not in
\* unreachable_devices]  (line 192); netbox_device_names are their names.
topology_devices(devs) == {d \in devs : ~is_unreachable(d)}

NoLinks == [final_links |-> << >>, processed_links |-> {}]

\* for neighbor_info in neighbor_list  (line 203)
RECURSIVE neighbor_list_loop(_, _, _, _, _, _)
neighbor_list_loop(links, names_in_order, unreachable, local_device, local_interface, neighbor_list) ==
  IF neighbor_list = << >> THEN links
  ELSE neighbor_list_loop(
         link_loop_body(links, names_in_order, unreachable, local_device, local_interface,
                        Head(neighbor_list).hostname, Head(neighbor_list).port),
         names_in_order, unreachable, local_device, local_interface, Tail(neighbor_list))

\* for local_interface, neighbor_list in neighbors_dict.items()  (line 202)
RECURSIVE neighbors_dict_loop(_, _, _, _, _)
neighbors_dict_loop(links, names_in_order, unreachable, local_device, neighbors_dict) ==
  IF neighbors_dict = << >> THEN links
  ELSE neighbors_dict_loop(
         neighbor_list_loop(links, names_in_order, unreachable, local_device,
                            Head(neighbors_dict).interface, Head(neighbors_dict).neighbors),
         names_in_order, unreachable, local_device, Tail(neighbors_dict))

\* for local_device, neighbors_dict in links_data.items(): if local_device
\* in unreachable_devices: continue  (lines 200-201)
RECURSIVE links_data_loop(_, _, _, _)
links_data_loop(links, names_in_order, unreachable, links_data) ==
  IF links_data = << >> THEN links
  ELSE links_data_loop(
         IF Head(links_data).device \in unreachable THEN links
         ELSE neighbors_dict_loop(links, names_in_order, unreachable,
                                  Head(links_data).device, Head(links_data).lldp),
         names_in_order, unreachable, Tail(links_data))

\* generate_topology_file(devices, all_links, ...) as main calls it, once
\* every future has been folded (line 329).  The template may fail to load
\* or render (lines 216-218), and then nothing is written.
GenerateTopology ==
  /\ mainpc = "lldp" /\ folded = future_to_device
  /\ \E order \in Orders(topology_devices(devices)) :
       LET links == links_data_loop(NoLinks, order, unreachable_devices, all_links)
       IN /\ name_order' = order
          /\ final_links' = links.final_links
          /\ processed_links' = links.processed_links
          /\ \E rendered \in BOOLEAN :
               IF rendered
               THEN /\ topo_written' = TRUE
                    /\ topo_nodes' = topology_devices(devices)
                    /\ topo_links' = links.final_links
                    /\ mainpc' = "deploy"
               ELSE /\ UNCHANGED topoVars
                    /\ mainpc' = "except"
  /\ UNCHANGED <<inputVars, devices, devices_result, unreachable_devices, fail_stage,
                 taskVars, sessions, fileVars, reachable_devices, lldpVars, syn_pos,
                 syn_record, endVars>>

(***************************************************************************)
(* deploy_containerlab, the summary and main's except clause               *)
(***************************************************************************)

\* How a containerlab command can end: exit status 0, no such program
\* (FileNotFoundError), a non-zero exit status (CalledProcessError), any
\* other exception
ToolResults == {"ok", "missing", "nonzero", "other"}

\* Faulty variant of deploy_report: one message for every error.
deploy_report_same(result) == IF result = "ok" THEN "none" ELSE "unexpected"

\* The except clause a command's error lands in, by the message it prints
\* (lines 249-259)
deploy_report(result) ==
  CASE result = "ok" -> "none"
    [] result = "missing" -> "not_found"
    [] result = "nonzero" -> "nonzero_exit"
    [] OTHER -> "unexpected"

\* subprocess.run(deploy_command, check=True), then the inspect command;
\* every error is reported and re-raised (lines 240-259)
Deploy ==
  /\ mainpc = "deploy"
  /\ \E deployed \in ToolResults :
       /\ deploy_status' = deployed
       /\ IF deployed = "ok"
          THEN \E inspected \in ToolResults :
                 /\ inspect_status' = inspected
                 /\ tool_report' = deploy_report(inspected)
                 /\ mainpc' = IF inspected = "ok" THEN "summary" ELSE "except"
          ELSE /\ inspect_status' = inspect_status
               /\ tool_report' = deploy_report(deployed)
               /\ mainpc' = "except"
  /\ UNCHANGED <<inputVars, devices, devices_result, unreachable_devices, fail_stage,
                 taskVars, sessions, fileVars, reachable_devices, lldpVars, synthVars,
                 topoVars, cleanup, summary_printed, outcome>>

\* print_final_summary(devices) at the end of the try block (line 332)
FinalSummary ==
  /\ mainpc = "summary"
  /\ summary_printed' = TRUE
  /\ outcome' = "ok"
  /\ mainpc' = "done"
  /\ UNCHANGED <<inputVars, devices, devices_result, unreachable_devices, fail_stage,
                 taskVars, sessions, fileVars, reachable_devices, lldpVars, synthVars,
                 topoVars, deploy_status, inspect_status, tool_report, cleanup>>

\* An exception before the inventory query (lines 286-300)
StartupFails ==
  /\ mainpc = "inventory"
  /\ mainpc' = "except"
  /\ UNCHANGED <<inputVars, devices, devices_result, unreachable_devices, fail_stage,
                 taskVars, sessions, fileVars, reachable_devices, lldpVars, synthVars,
                 topoVars, endVars>>

\* Faulty variant of devices_in_locals: the except clause finds no devices.
devices_in_locals_never == FALSE

\* 'devices' in locals()  (line 339): the assignment of line 302 was reached
devices_in_locals == devices_result # "unset"

\* except Exception: the summary if 'devices' in locals(), then raise
\* (lines 337-341)
MainExcept ==
  /\ mainpc = "except"
  /\ summary_printed' = devices_in_locals
  /\ outcome' = "raised"
  /\ mainpc' = "done"
  /\ UNCHANGED <<inputVars, devices, devices_result, unreachable_devices, fail_stage,
                 taskVars, sessions, fileVars, reachable_devices, lldpVars, synthVars,
                 topoVars, deploy_status, inspect_status, tool_report, cleanup>>

(***************************************************************************)
(* A run of main()                                                         *)
(***************************************************************************)

Init ==
  /\ netbox \in {"ok", "nosite", "error"}
  /\ site_devices \in {S \in SUBSET AllNames : Cardinality(S) <= MaxDevices}
  /\ netbox # "ok" => site_devices = {}
  /\ primary_ip \in SUBSET site_devices
  /\ skip_connectivity_test \in BOOLEAN
  /\ mainpc = "inventory"
  /\ devices = {} /\ devices_result = "unset"
  /\ unreachable_devices = {}
  /\ fail_stage = [d \in AllNames |-> 0]
  /\ probe = TaskIdle /\ cfg = TaskIdle /\ info = TaskIdle /\ lldp = TaskIdle
  /\ sessions = {}
  /\ config_files = {} /\ sn_files = {}
  /\ reachable_devices = {}
  /\ future_to_device = {} /\ folded = {} /\ all_links = << >>
  /\ lldp_result = [d \in AllNames |-> NoResult]
  /\ name_order = << >> /\ final_links = << >> /\ processed_links = {} /\ syn_pos = 0
  /\ syn_record = NoRecord
  /\ topo_written = FALSE /\ topo_nodes = {} /\ topo_links = << >>
  /\ deploy_status = "notrun" /\ inspect_status = "notrun"
  /\ tool_report = "none" /\ cleanup = NoCleanup
  /\ summary_printed = FALSE /\ outcome = "running"

Next ==
  \/ GetDevices
  \/ StartupFails
  \/ \E d \in AllNames : ProbeStart(d)
  \/ \E d \in AllNames : ProbeClose(d)
  \/ ProbeJoin
  \/ Provision
  \/ \E d \in AllNames : CfgStart(d)
  \/ \E d \in AllNames : CfgFetch(d)
  \/ \E d \in AllNames : InfoStart(d)
  \/ \E d \in AllNames : InfoFetch(d)
  \/ Gather
  \/ \E d \in AllNames : LldpStart(d)
  \/ \E d \in AllNames : LldpFetch(d)
  \/ \E d \in AllNames : Collect(d)
  \/ GenerateTopology
  \/ Deploy
  \/ FinalSummary
  \/ MainExcept

Spec == Init /\ [][Next]_vars

\* The largest site of the runs checked for termination
MaxFairDevices == 2

\* The start of main on a site of at most MaxFairDevices devices
FairInit == Init /\ Cardinality(site_devices) <= MaxFairDevices

\* main and the workers of its executors keep running: a step that can be
\* taken is taken
FairSpec == FairInit /\ [][Next]_vars /\ WF_vars(Next)

(***************************************************************************)
(* One executor with more tasks than workers: a rack of devices that all   *)
(* have a management address, taken at the probes, at the harvest and at   *)
(* the LLDP collection                                                     *)
(***************************************************************************)

\* Devices of the rack at the harvest, two tasks each
PoolDevices == 6

PoolLetters == <<"p", "q", "r", "s", "t", "u", "v", "w", "x", "y", "z">>
PoolName(i) == <<"r", PoolLetters[i]>>
PoolRack(n) == {PoolName(i) : i \in 1..n}

\* Devices of the rack at the probes and at the LLDP collection, one task each
PoolWide == PoolRack(MAX_WORKERS + 1)

\* The devices of the rack whose sessions can fail
PoolFaulty == {PoolName(1), PoolName(3)}

\* executor.map and the dict comprehension submit one task per device in
\* the order of the list, and the workers take the tasks in the order of
\* their submission: the task of the i-th device starts when no task of an
\* earlier device is waiting
first_waiting(task, i) == \A j \in 1..(i - 1) : task[PoolName(j)] # "queued"

\* Places in the device list
PoolPlaces == 1..(MAX_WORKERS + 1)

\* The second map of line 160 is submitted after the first of line 159
first_map_taken == \A e \in DOMAIN cfg : cfg[e] # "queued"

\* main at one of its three executors, every earlier step having succeeded:
\* the probes submitted (lines 140-141), provision_node_files about to
\* submit both maps (lines 157-160), the LLDP futures submitted (lines 314-320)
PoolInit ==
  /\ netbox = "ok" /\ skip_connectivity_test = FALSE
  /\ \/ /\ mainpc = "probe" /\ devices = PoolWide
        /\ probe = [d \in PoolWide |-> "queued"]
        /\ lldp = [d \in PoolWide |-> "idle"]
        /\ config_files = {} /\ sn_files = {} /\ reachable_devices = {}
        /\ future_to_device = {}
     \/ /\ mainpc = "provision" /\ devices = PoolRack(PoolDevices)
        /\ probe = [d \in PoolWide |-> "idle"]
        /\ lldp = [d \in PoolWide |-> "idle"]
        /\ config_files = {} /\ sn_files = {} /\ reachable_devices = {}
        /\ future_to_device = {}
     \/ /\ mainpc = "lldp" /\ devices = PoolWide
        /\ probe = [d \in PoolWide |-> "idle"]
        /\ lldp = [d \in PoolWide |-> "queued"]
        /\ config_files = devices /\ sn_files = devices /\ reachable_devices = devices
        /\ future_to_device = devices
  /\ site_devices = devices /\ primary_ip = devices
  /\ devices_result = "list"
  /\ unreachable_devices = {}
  /\ fail_stage = [d \in PoolWide |-> 0]
  /\ cfg = [d \in PoolWide |-> "idle"] /\ info = [d \in PoolWide |-> "idle"]
  /\ sessions = {}
  /\ folded = {} /\ all_links = << >>
  /\ lldp_result = [d \in PoolWide |-> NoResult]
  /\ name_order = << >> /\ final_links = << >> /\ processed_links = {} /\ syn_pos = 0
  /\ syn_record = NoRecord
  /\ topo_written = FALSE /\ topo_nodes = {} /\ topo_links = << >>
  /\ deploy_status = "notrun" /\ inspect_status = "notrun"
  /\ tool_report = "none" /\ cleanup = NoCleanup
  /\ summary_printed = FALSE /\ outcome = "running"

\* Only the faulty device's sessions fail
within_faults == unreachable_devices' \subseteq PoolFaulty

\* The steps of the workers of one executor
PoolNext ==
  \/ \E i \in PoolPlaces :
       first_waiting(probe, i) /\ ProbeStart(PoolName(i)) /\ within_faults
  \/ \E d \in PoolWide : ProbeClose(d) /\ within_faults
  \/ Provision
  \/ \E i \in PoolPlaces :
       first_waiting(cfg, i) /\ CfgStart(PoolName(i)) /\ within_faults
  \/ \E d \in PoolWide : CfgFetch(d) /\ within_faults
  \/ \E i \in PoolPlaces :
       /\ first_map_taken /\ first_waiting(info, i)
       /\ InfoStart(PoolName(i)) /\ within_faults
  \/ \E d \in PoolWide : InfoFetch(d) /\ within_faults
  \/ \E i \in PoolPlaces :
       first_waiting(lldp, i) /\ LldpStart(PoolName(i)) /\ within_faults
  \/ \E d \in PoolWide : LldpFetch(d) /\ within_faults

PoolSpec == PoolInit /\ [][PoolNext]_vars

(***************************************************************************)
(* generate_topology_file on its own: any device set, failure set, set     *)
(* order and neighbor map, the loop taken one item at a time               *)
(***************************************************************************)

SynthNames == {NAME_A, NAME_Ab, NAME_Ac}
SynthHints == {HINT_a, HINT_ab, HINT_acx}
SynthInterfaces == {IF_Ethernet1s1, IF_Management1, IF_eth1s1}

SynthInit ==
  /\ devices \in (SUBSET SynthNames) \ {{}}
  /\ unreachable_devices \in SUBSET devices
  /\ name_order \in Orders(topology_devices(devices))
  /\ mainpc = "synth"
  /\ final_links = << >> /\ processed_links = {} /\ syn_pos = 0
  /\ syn_record = NoRecord
  /\ netbox = "ok" /\ site_devices = devices /\ primary_ip = devices
  /\ skip_connectivity_test = FALSE
  /\ devices_result = "list"
  /\ fail_stage = [d \in AllNames |-> 0]
  /\ probe = TaskIdle /\ cfg = TaskIdle /\ info = TaskIdle /\ lldp = TaskIdle
  /\ sessions = {}
  /\ config_files = {} /\ sn_files = {}
  /\ reachable_devices = {}
  /\ future_to_device = {} /\ folded = {} /\ all_links = << >>
  /\ lldp_result = [d \in AllNames |-> NoResult]
  /\ topo_written = FALSE /\ topo_nodes = {} /\ topo_links = << >>
  /\ deploy_status = "notrun" /\ inspect_status = "notrun"
  /\ tool_report = "none" /\ cleanup = NoCleanup
  /\ summary_printed = FALSE /\ outcome = "running"

\* An entry of links_data whose device is in unreachable_devices (line 201)
SynthSkipLocal(local_device) ==
  /\ mainpc = "synth" /\ syn_pos < MaxItems
  /\ local_device \in devices /\ local_device \in unreachable_devices
  /\ syn_pos' = syn_pos + 1
  /\ syn_record' = [syn_record EXCEPT !.local_device = local_device]
  /\ UNCHANGED <<inputVars, mainpc, devices, devices_result, unreachable_devices,
                 fail_stage, taskVars, sessions, fileVars, reachable_devices, lldpVars,
                 name_order, final_links, processed_links, topoVars, endVars>>

\* One neighbor record of an entry that is not skipped (lines 204-214)
SynthRecord(local_device, local_interface, hostname, port) ==
  /\ mainpc = "synth" /\ syn_pos < MaxItems
  /\ local_device \in devices /\ local_device \notin unreachable_devices
  /\ LET links == link_loop_body(
                    [final_links |-> final_links, processed_links |-> processed_links],
                    name_order, unreachable_devices, local_device, local_interface,
                    hostname, port)
     IN /\ final_links' = links.final_links
        /\ processed_links' = links.processed_links
  /\ syn_pos' = syn_pos + 1
  /\ syn_record' = [local_device |-> local_device, local_interface |-> local_interface,
                    hostname |-> hostname, port |-> port]
  /\ UNCHANGED <<inputVars, mainpc, devices, devices_result, unreachable_devices,
                 fail_stage, taskVars, sessions, fileVars, reachable_devices, lldpVars,
                 name_order, topoVars, endVars>>

\* The loop is over; the topology is rendered and written (lines 216-227)
SynthReturn ==
  /\ mainpc = "synth"
  /\ topo_written' = TRUE
  /\ topo_nodes' = topology_devices(devices)
  /\ topo_links' = final_links
  /\ mainpc' = "deploy"
  /\ UNCHANGED <<inputVars, devices, devices_result, unreachable_devices, fail_stage,
                 taskVars, sessions, fileVars, reachable_devices, lldpVars, synthVars,
                 endVars>>

SynthNext ==
  \/ \E d \in SynthNames : SynthSkipLocal(d)
  \/ \E d \in SynthNames, i, p \in SynthInterfaces, h \in SynthHints : SynthRecord(d, i, h, p)
  \/ SynthReturn

SynthSpec == SynthInit /\ [][SynthNext]_vars

(***************************************************************************)
(* cleanup.py: destroy_containerlab, remove_generated_files, main          *)
(***************************************************************************)

\* What remove_generated_files' rmtree can do
RmtreeResults == {"ok", "oserror"}

\* The message destroy_containerlab prints for the way the command ended
\* (lines 19-28 of cleanup.py)
destroy_report(result) ==
  CASE result = "ok" -> "destroyed"
    [] result = "missing" -> "not_found"
    [] result = "nonzero" -> "nonzero_exit"
    [] OTHER -> "unexpected"

\* cleanup.py is started; the lab directory and the topology file in it
\* exist or not, and the destroy command and rmtree will end in some way.
CleanupInit ==
  /\ cleanup \in [pc : {"start"}, lab_dir : BOOLEAN, topology_file : BOOLEAN,
                  tool : ToolResults, rmtree : RmtreeResults, destroy_ran : {FALSE},
                  report : {"none"}, outcome : {"running"}]
  /\ cleanup.topology_file => cleanup.lab_dir
  /\ netbox = "ok" /\ site_devices = {} /\ primary_ip = {}
  /\ skip_connectivity_test = FALSE
  /\ mainpc = "notrun"
  /\ devices = {} /\ devices_result = "unset"
  /\ unreachable_devices = {}
  /\ fail_stage = [d \in AllNames |-> 0]
  /\ probe = TaskIdle /\ cfg = TaskIdle /\ info = TaskIdle /\ lldp = TaskIdle
  /\ sessions = {}
  /\ config_files = {} /\ sn_files = {}
  /\ reachable_devices = {}
  /\ future_to_device = {} /\ folded = {} /\ all_links = << >>
  /\ lldp_result = [d \in AllNames |-> NoResult]
  /\ name_order = << >> /\ final_links = << >> /\ processed_links = {} /\ syn_pos = 0
  /\ syn_record = NoRecord
  /\ topo_written = FALSE /\ topo_nodes = {} /\ topo_links = << >>
  /\ deploy_status = "notrun" /\ inspect_status = "notrun"
  /\ tool_report = "none"
  /\ summary_printed = FALSE /\ outcome = "running"

pipelineVars ==
  << inputVars, mainpc, devices, devices_result, unreachable_devices, fail_stage,
     taskVars, sessions, fileVars, reachable_devices, lldpVars, synthVars, topoVars,
     deploy_status, inspect_status, tool_report, summary_printed, outcome >>

\* main of cleanup.py up to its call of destroy_containerlab (lines 44-52)
CleanupStart ==
  /\ cleanup.pc = "start"
  /\ cleanup' = [cleanup EXCEPT !.pc = "destroy"]
  /\ UNCHANGED pipelineVars

\* destroy_containerlab (lines 6-28): without the topology file nothing is
\* run; every error of the command is printed and the function returns.
destroy_containerlab ==
  /\ cleanup.pc = "destroy"
  /\ cleanup' = IF ~cleanup.topology_file
                THEN [cleanup EXCEPT !.pc = "remove", !.report = "skipped"]
                ELSE [cleanup EXCEPT !.pc = "remove", !.destroy_ran = TRUE,
                                     !.report = destroy_report(cleanup.tool)]
  /\ UNCHANGED pipelineVars

\* remove_generated_files (lines 30-41): rmtree of the lab directory if it
\* is one; an OSError is printed.
remove_generated_files ==
  /\ cleanup.pc = "remove"
  /\ cleanup' = IF cleanup.lab_dir /\ cleanup.rmtree = "ok"
                THEN [cleanup EXCEPT !.pc = "complete", !.lab_dir = FALSE,
                                     !.topology_file = FALSE]
                ELSE [cleanup EXCEPT !.pc = "complete"]
  /\ UNCHANGED pipelineVars

\* print("Cleanup complete.") and the return of main (line 55)
CleanupComplete ==
  /\ cleanup.pc = "complete"
  /\ cleanup' = [cleanup EXCEPT !.pc = "done", !.outcome = "ok"]
  /\ UNCHANGED pipelineVars

CleanupNext ==
  \/ CleanupStart
  \/ destroy_containerlab
  \/ remove_generated_files
  \/ CleanupComplete

CleanupSpec == CleanupInit /\ [][CleanupNext]_vars

(***************************************************************************)
(* Vocabulary of the properties                                            *)
(***************************************************************************)

\* An endpoint is "<device>:<interface>" and no device name holds a colon
colon_at(ep) == CHOOSE i \in 1..Len(ep) : ep[i] = ":" /\ \A j \in 1..(i - 1) : ep[j] # ":"

endpoint_device(ep) == SubSeq(ep, 1, colon_at(ep) - 1)

endpoint_interface(ep) == SubSeq(ep, colon_at(ep) + 1, Len(ep))

\* The two ends of a list entry, as an unordered pair
ends(entry) == {entry.endpoints[1], entry.endpoints[2]}

\* How many entries of a link list join the two given endpoints
entries_between(list, ep1, ep2) ==
  Cardinality({k \in 1..Len(list) : ends(list[k]) = {ep1, ep2}})

\* A hint names a device when either is a prefix of the other, case ignored
prefix_related(hint, name) ==
  LET h == lower(hint)
      n == lower(name)
  IN  \/ Len(h) >= Len(n) /\ SubSeq(h, 1, Len(n)) = n
      \/ Len(n) >= Len(h) /\ SubSeq(n, 1, Len(h)) = h

\* The canonical names a hint is related to
candidates(hint) == {c \in devices \ unreachable_devices : prefix_related(hint, c)}

\* An interface identifier of the topology is a data-plane one
data_plane(interface) == \E i \in 1..(Len(interface) - 2) : SubSeq(interface, i, i + 2) = <<"e", "t", "h">>

\* The endpoint under which a device's reported interface is emitted
emitted(device, interface) == endpoint(device, map_interface(node_template_name, interface))

\* The neighbor records of main's neighbor map, one per reported neighbor
reported ==
  UNION {UNION {{[local_device |-> all_links[k].device,
                  local_interface |-> all_links[k].lldp[m].interface,
                  hostname |-> all_links[k].lldp[m].neighbors[n].hostname,
                  port |-> all_links[k].lldp[m].neighbors[n].port]
                 : n \in 1..Len(all_links[k].lldp[m].neighbors)}
                : m \in 1..Len(all_links[k].lldp)}
         : k \in 1..Len(all_links)}

\* Two records are the two reports of one link: each names the other's
\* device and interface
mirror(r1, r2) ==
  /\ r1.local_device # r2.local_device
  /\ r1.local_interface = r2.port /\ r2.local_interface = r1.port
  /\ prefix_related(r1.hostname, r2.local_device)
  /\ prefix_related(r2.hostname, r1.local_device)

\* generate_topology_file has run on main's neighbor map
synthesized == mainpc \in {"deploy", "summary", "except", "done"}

(***************************************************************************)
(* C1: link de-duplication                                                 *)
(***************************************************************************)

\* No two entries of the link list join the same unordered pair of endpoints
no_duplicate_pair ==
  \A i, j \in 1..Len(final_links) : ends(final_links[i]) = ends(final_links[j]) => i = j

\* Two reports of one link, both devices canonical, both interfaces
\* data-plane ones
mirror_reports(r1, r2) ==
  /\ mirror(r1, r2)
  /\ r1.local_device \in devices \ unreachable_devices
  /\ r2.local_device \in devices \ unreachable_devices
  /\ data_plane(map_interface(node_template_name, r1.local_interface))
  /\ data_plane(map_interface(node_template_name, r2.local_interface))

\* The lists after the loop of generate_topology_file has taken two reports,
\* r1 and then r2
fed(r1, r2) ==
  link_loop_body(
    link_loop_body([final_links |-> final_links, processed_links |-> processed_links],
                   name_order, unreachable_devices, r1.local_device, r1.local_interface,
                   r1.hostname, r1.port),
    name_order, unreachable_devices, r2.local_device, r2.local_interface, r2.hostname, r2.port)

\* The loop has taken no record yet
fresh == mainpc = "synth" /\ syn_pos = 0

\* The pairs of reports a neighbor map can hold of one link between the
\* devices d1 and d2, with hints from the given sets
report_pairs(d1, d2, hints1, hints2) ==
  {<<[local_device |-> d1, local_interface |-> i1, hostname |-> h1, port |-> i2],
     [local_device |-> d2, local_interface |-> i2, hostname |-> h2, port |-> i1]>>
   : h1 \in hints1, h2 \in hints2, i1 \in SynthInterfaces, i2 \in SynthInterfaces}

one_entry_after(pair) ==
  entries_between(fed(pair[1], pair[2]).final_links,
                  emitted(pair[1].local_device, pair[1].local_interface),
                  emitted(pair[2].local_device, pair[2].local_interface)) = 1

\* The record the loop took last, if it was not skipped with its device
last_taken ==
  IF mainpc = "synth" /\ syn_pos >= 1 /\ syn_record.local_device \in devices \ unreachable_devices
  THEN {syn_record} ELSE {}

\* C1 as stated: the link list never holds two entries with the same
\* unordered pair of endpoints, and a neighbor map with the two reports of a
\* link, both devices reachable and both interfaces data-plane ones, yields
\* exactly one entry for the link, whichever report comes first.
C1_AsStated ==
  /\ no_duplicate_pair
  /\ fresh =>
       \A d1 \in devices, d2 \in devices :
         \A pair \in report_pairs(d1, d2, SynthHints, SynthHints) :
           mirror_reports(pair[1], pair[2]) => one_entry_after(pair)

\* C1, amended: the link list never holds two entries with the same unordered
\* pair of endpoints; a neighbor map with the two reports of a link, both
\* devices reachable, both interfaces data-plane ones and each hint related
\* to the other device alone among the canonical names, yields exactly one
\* entry for the link, whichever report comes first; and after any record
\* with data-plane interfaces whose hint is related to one canonical name
\* alone, the list holds exactly one entry for that record's link.
C1_OneEntryPerLink ==
  /\ no_duplicate_pair
  /\ fresh =>
       \A d1 \in devices, d2 \in devices :
         \A pair \in report_pairs(d1, d2, {h \in SynthHints : candidates(h) = {d2}},
                                  {h \in SynthHints : candidates(h) = {d1}}) :
           mirror_reports(pair[1], pair[2]) => one_entry_after(pair)
  /\ \A r \in last_taken, peer \in devices :
       /\ candidates(r.hostname) = {peer}
       /\ data_plane(map_interface(node_template_name, r.local_interface))
       /\ data_plane(map_interface(node_template_name, r.port))
       => entries_between(final_links, emitted(r.local_device, r.local_interface),
                          emitted(peer, r.port)) = 1

\* The loop took the two reports of one link: the list has the entry of the
\* first, with the first report's device as its first end, and the second
\* report added nothing
C1_Witness ==
  /\ mainpc = "synth" /\ syn_pos = 2 /\ Len(final_links) = 1
  /\ \E r \in last_taken, peer \in devices :
       /\ peer # r.local_device
       /\ candidates(r.hostname) = {peer}
       /\ final_links[1].endpoints =
            <<emitted(peer, r.port), emitted(r.local_device, r.local_interface)>>

(***************************************************************************)
(* C2: a failure is sticky                                                 *)
(***************************************************************************)

\* The stage a kind of session belongs to
stage_of(kind) == IF kind = "probe" THEN 1 ELSE IF kind = "lldp" THEN 3 ELSE 2

\* The device of an entry of the neighbor map, of a link's end
reporters == {all_links[k].device : k \in 1..Len(all_links)}

link_devices(list) ==
  UNION {{endpoint_device(list[k].endpoints[1]), endpoint_device(list[k].endpoints[2])}
         : k \in 1..Len(list)}

\* C2: a device that entered the failure set in one stage has, in every later
\* stage, no session open, no configuration or serial-number file written,
\* no entry in the neighbor map, no node and no link endpoint in the topology.
C2_FailureIsSticky ==
  \A d \in AllNames :
    d \in unreachable_devices =>
      /\ fail_stage[d] \in 1..3
      /\ \A kind \in {"probe", "cfg", "info", "lldp"} :
           <<kind, d>> \in sessions => stage_of(kind) <= fail_stage[d]
      /\ d \in config_files \cup sn_files => fail_stage[d] >= 2
      /\ d \in reporters => fail_stage[d] >= 3
      /\ d \notin topo_nodes
      /\ d \notin link_devices(final_links) \cup link_devices(topo_links)

\* A device failed in the probe or the harvest, and the run went on to write
\* a topology of the others
C2_Witness ==
  /\ topo_written /\ topo_nodes # {}
  /\ \E d \in devices : d \in unreachable_devices /\ fail_stage[d] \in {1, 2}

(***************************************************************************)
(* C3: a device without a management address                               *)
(***************************************************************************)

\* C3: a device without a management address is in the failure set once the
\* harvest is over, whether or not the probe stage ran; no session is ever
\* opened to it and it is no node of the topology.
C3_NoAddressIsUnreachable ==
  \A d \in devices \ primary_ip :
    /\ \A kind \in {"probe", "cfg", "info", "lldp"} : <<kind, d>> \notin sessions
    /\ mainpc \in {"lldp", "deploy", "summary"} => d \in unreachable_devices
    /\ d \notin topo_nodes

(***************************************************************************)
(* C4: the two harvest tasks of one device                                 *)
(***************************************************************************)

\* C4: once a device is in the failure set, neither of its harvest tasks
\* goes on to write its file.
C4_SiblingAborts ==
  [][\A d \in AllNames :
       d \in unreachable_devices =>
         /\ d \in config_files' => d \in config_files
         /\ d \in sn_files' => d \in sn_files]_vars

(***************************************************************************)
(* C5: no slash in an emitted interface identifier                         *)
(***************************************************************************)

\* The interface identifiers of the ends of a link list
link_interfaces(list) ==
  UNION {{endpoint_interface(list[k].endpoints[1]), endpoint_interface(list[k].endpoints[2])}
         : k \in 1..Len(list)}

\* C5: no interface identifier of an endpoint of an emitted link holds a
\* slash, whatever local and peer interface names the reports carry.
C5_NoSlash ==
  \A interface \in link_interfaces(final_links) \cup link_interfaces(topo_links) :
    \A i \in 1..Len(interface) : interface[i] # "/"

(***************************************************************************)
(* C6: failed devices and the topology                                     *)
(***************************************************************************)

\* C6: every endpoint of an emitted link is on a device of the run's device
\* set that is not in the failure set; a failed device is no node of the
\* topology, no local device and no resolved peer of a link; and a report of
\* a device that did not fail, whose hint is related to one canonical name
\* only and whose interfaces are data-plane ones, has its link in the list.
C6_NoFailedEndpoint ==
  /\ link_devices(final_links) \cup link_devices(topo_links) \subseteq devices \ unreachable_devices
  /\ topo_nodes \subseteq devices \ unreachable_devices
  /\ synthesized =>
       \A r \in reported, peer \in devices :
         /\ r.local_device \notin unreachable_devices
         /\ candidates(r.hostname) = {peer}
         /\ data_plane(map_interface(node_template_name, r.local_interface))
         /\ data_plane(map_interface(node_template_name, r.port))
         => entries_between(final_links, emitted(r.local_device, r.local_interface),
                            emitted(peer, r.port)) = 1

\* Neighbor collection failed on one device, and the topology written from
\* the reports of the others has a link
C6_Witness ==
  /\ topo_written /\ topo_links # << >>
  /\ \E d \in devices : d \in unreachable_devices /\ fail_stage[d] = 3

(***************************************************************************)
(* C7: peer-name resolution                                                *)
(***************************************************************************)

\* The loop has just taken a neighbor record, now in syn_record'
record_step ==
  /\ mainpc = "synth" /\ syn_pos' = syn_pos + 1
  /\ syn_record'.local_device \notin unreachable_devices

\* The step appended one entry to the link list
link_appended ==
  /\ Len(final_links') = Len(final_links) + 1
  /\ SubSeq(final_links', 1, Len(final_links)) = final_links

\* C7: a record yields a link only to a canonical name its hint is
\* prefix-related to, case ignored; a record with data-plane interfaces whose
\* hint is related to exactly one canonical name has its link to that name in
\* the list; a record whose hint is related to none leaves the link list and
\* the seen keys as they were.
C7_PeerResolution ==
  [][record_step =>
       LET r == syn_record'
           local_end == emitted(r.local_device, r.local_interface)
       IN  /\ final_links' = final_links \/ link_appended
           /\ link_appended =>
                \E c \in candidates(r.hostname) :
                  final_links'[Len(final_links')].endpoints = <<local_end, emitted(c, r.port)>>
           /\ \A c \in devices :
                /\ candidates(r.hostname) = {c}
                /\ data_plane(map_interface(node_template_name, r.local_interface))
                /\ data_plane(map_interface(node_template_name, r.port))
                => entries_between(final_links', local_end, emitted(c, r.port)) = 1
           /\ candidates(r.hostname) = {} =>
                final_links' = final_links /\ processed_links' = processed_links]_vars

\* The loop took a record whose hint is shorter than the one canonical name
\* it is related to, and the record's link is the last of the list
C7_Witness ==
  /\ mainpc = "synth" /\ syn_pos >= 1 /\ final_links # << >>
  /\ syn_record.hostname = HINT_a
  /\ candidates(syn_record.hostname) = {NAME_Ab}
  /\ final_links[Len(final_links)].endpoints =
       <<emitted(syn_record.local_device, syn_record.local_interface),
         emitted(NAME_Ab, syn_record.port)>>

(***************************************************************************)
(* C8: the interface filter                                                *)
(***************************************************************************)

\* The interface identifiers of the seen keys
key_interfaces == UNION {{endpoint_interface(key[1]), endpoint_interface(key[2])} : key \in processed_links}

\* C8: both interface identifiers of every emitted link, and of every key
\* marked as seen, contain "eth"; and a record with a mapped local or peer
\* interface name without it leaves the link list and the seen keys as they
\* were.
C8_InterfaceFilter ==
  /\ [](\A interface \in link_interfaces(final_links) \cup link_interfaces(topo_links) \cup key_interfaces :
          data_plane(interface))
  /\ [][record_step =>
          LET r == syn_record'
          IN  \/ /\ data_plane(map_interface(node_template_name, r.local_interface))
                 /\ data_plane(map_interface(node_template_name, r.port))
              \/ final_links' = final_links /\ processed_links' = processed_links]_vars

\* The loop took a record with a management interface at one end, resolved
\* to a canonical name, and emitted nothing for it
C8_Witness ==
  /\ mainpc = "synth" /\ syn_pos = 2 /\ Len(final_links) = 1
  /\ syn_record.local_device \notin unreachable_devices
  /\ candidates(syn_record.hostname) # {}
  /\ syn_record.port = IF_Management1
  /\ data_plane(map_interface(node_template_name, syn_record.local_interface))

(***************************************************************************)
(* C9: errors of the per-device tasks                                      *)
(***************************************************************************)

\* A task of the device ended in an error
task_failed(d) ==
  \E task \in {probe, cfg, info, lldp} : task[d] \in {"open_failed", "fetch_failed", "raised"}

\* C9: every error of a per-device task is caught inside the task, and the
\* device of a task that ended in an error is in the failure set.
C9_ErrorsCaughtAndRecorded ==
  \A d \in AllNames :
    /\ \A task \in {probe, cfg, info, lldp} : task[d] # "raised"
    /\ task_failed(d) => d \in unreachable_devices

(***************************************************************************)
(* C10: sessions are closed                                                *)
(***************************************************************************)

\* The position of the task that owns a kind of session
task_of(kind) ==
  IF kind = "probe" THEN probe ELSE IF kind = "cfg" THEN cfg ELSE IF kind = "info" THEN info ELSE lldp

\* C10: a session is open only while the task that opened it is between its
\* open() and its end; a task that has ended, in success or in failure, has
\* left no session open, and none is open once the stages are over.
C10_SessionsClosed ==
  /\ \A kind \in {"probe", "cfg", "info", "lldp"}, d \in AllNames :
       <<kind, d>> \in sessions => task_of(kind)[d] = "open"
  /\ mainpc \in {"deploy", "summary", "except", "done"} => sessions = {}

\* One task ended after a call on its open session failed, another after its
\* call succeeded, and no session is open
C10_Witness ==
  /\ sessions = {}
  /\ \E d \in devices : \E kind \in {"cfg", "info", "lldp"} : task_of(kind)[d] = "fetch_failed"
  /\ \E d \in devices : \E kind \in {"probe", "cfg", "info", "lldp"} :
       task_of(kind)[d] = "done" /\ d \notin unreachable_devices

(***************************************************************************)
(* C11: the order of the stages                                            *)
(***************************************************************************)

\* A task of the given kinds is waiting for a worker or holds one
in_flight(tasks) == \E task \in tasks, d \in AllNames : task[d] \in {"queued", "open"}

\* The neighbor map holds, for every submitted device whose future holds a
\* non-empty dict, that dict, and nothing else
all_results_folded ==
  /\ folded = future_to_device
  /\ reporters = {d \in future_to_device : ~lldp_result[d].none /\ lldp_result[d].data # << >>}
  /\ \A k \in 1..Len(all_links) : all_links[k].lldp = lldp_result[all_links[k].device].data

\* C11: neighbor collection is entered only when no harvest task is in
\* flight; synthesis is entered only when no task at all is in flight and
\* the result of every submitted neighbor-collection task is in the neighbor
\* map; and from then on neither the neighbor map nor the failure set
\* changes.
C11_StageOrdering ==
  /\ [](mainpc = "lldp" => ~in_flight({probe, cfg, info}) /\ sessions \subseteq {"lldp"} \X AllNames)
  /\ [](synthesized /\ devices_result = "list" =>
          /\ ~in_flight({probe, cfg, info, lldp}) /\ sessions = {}
          /\ all_results_folded)
  /\ [][synthesized => all_links' = all_links /\ unreachable_devices' = unreachable_devices]_vars

\* Synthesis has run on the folded results of three neighbor-collection
\* tasks, one of them failed
C11_Witness ==
  /\ synthesized /\ Cardinality(future_to_device) = 3 /\ folded = future_to_device
  /\ Len(all_links) = 2
  /\ \E d \in future_to_device : lldp[d] = "fetch_failed"

(***************************************************************************)
(* C12: the final summary                                                  *)
(***************************************************************************)

\* main() has ended
run_ended == outcome # "running"

\* C12 as stated: whenever the inventory query has resolved the device set,
\* be it to no device at all, the run ends with the final summary produced.
C12_AsStated ==
  run_ended /\ devices_result \in {"list", "empty"} => summary_printed

\* C12, amended: every run ends, and a run in which the inventory query
\* returned a non-empty device list has produced the final summary when it
\* has ended, normally or on an error.
C12_SummaryWithDevices ==
  /\ [](run_ended /\ devices_result = "list" => summary_printed)
  /\ <>run_ended

\* A run with devices ended on a failed deploy, with the summary produced
C12_Witness ==
  /\ run_ended /\ outcome = "raised" /\ devices_result = "list"
  /\ deploy_status = "nonzero" /\ summary_printed

(***************************************************************************)
(* C13: a failed deploy                                                    *)
(***************************************************************************)

\* C13: when the deploy command is missing or exits non-zero, the error
\* reported is the one of that cause, a different one for each; the inspect
\* command is not run; main goes to its except clause and the run ends with
\* the error raised out of main, never as a normal end.
C13_DeployFailureIsFatal ==
  deploy_status \in {"missing", "nonzero"} =>
    /\ tool_report = (IF deploy_status = "missing" THEN "not_found" ELSE "nonzero_exit")
    /\ inspect_status = "notrun"
    /\ mainpc \in {"except", "done"}
    /\ run_ended => outcome = "raised"

\* A run ended after the deploy command was not found
C13_Witness ==
  /\ run_ended /\ deploy_status = "missing" /\ tool_report = "not_found"
  /\ inspect_status = "notrun" /\ outcome = "raised"

(***************************************************************************)
(* C14: a failed destroy                                                   *)
(***************************************************************************)

\* C14: when the destroy command was run and is missing or exits non-zero,
\* the cleanup ends as a failure: the lab directory is not removed after it
\* and the run does not end as a successful cleanup.
C14_DestroyFailureIsFatal ==
  cleanup.pc # "notrun" /\ cleanup.destroy_ran /\ cleanup.tool \in {"missing", "nonzero"} =>
    /\ cleanup.pc \notin {"remove", "complete"}
    /\ cleanup.outcome # "ok"

(***************************************************************************)
(* C15: two devices, one link                                              *)
(***************************************************************************)

END_A_eth2 == NAME_A \o STR_colon \o STR_eth \o <<"2">>

END_B_eth1 == NAME_B \o STR_colon \o STR_eth \o <<"1">>

\* The run has devices A and B, both reachable to the end, A has reported B
\* on its Ethernet2 and B has reported A on its Ethernet1, and the topology
\* is written
two_device_scenario ==
  /\ devices = {NAME_A, NAME_B} /\ unreachable_devices = {}
  /\ reporters = {NAME_A, NAME_B}
  /\ \A k \in 1..Len(all_links) : all_links[k].lldp = lldp_neighbors_of(all_links[k].device)
  /\ topo_written

\* C15 as stated: in the scenario the written link list is the one entry
\* ["A:eth2", "B:eth1"], whichever neighbor-collection task completed first.
C15_AsStated ==
  two_device_scenario => topo_links = <<[endpoints |-> <<END_A_eth2, END_B_eth1>>]>>

\* C15, amended: in the scenario the written link list has exactly one
\* entry, and its two endpoints are "A:eth2" and "B:eth1", in the order
\* ["A:eth2", "B:eth1"] when A's result was folded first and in the order
\* ["B:eth1", "A:eth2"] when B's was.
C15_OneLinkEitherWay ==
  two_device_scenario =>
    /\ Len(topo_links) = 1
    /\ topo_links[1].endpoints =
         IF all_links[1].device = NAME_A THEN <<END_A_eth2, END_B_eth1>>
                                         ELSE <<END_B_eth1, END_A_eth2>>

\* The scenario with B's result folded before A's
C15_Witness ==
  /\ two_device_scenario /\ all_links[1].device = NAME_B
  /\ topo_links = <<[endpoints |-> <<END_B_eth1, END_A_eth2>>]>>

(***************************************************************************)
(* C16: the failure set only grows                                         *)
(***************************************************************************)

\* The tasks of the device that ended in their except clause
caught_failures(d) == {task \in {probe, cfg, info, lldp} : task[d] \in {"open_failed", "fetch_failed"}}

\* C16: the failure set is empty when the run starts; no step removes a
\* member, and a step adds at most one device, one of the run; every device
\* that a task has inserted, or whose task ended in its except clause, is a
\* member, however the insertions of concurrent tasks interleave.
C16_InsertOnly ==
  /\ [](mainpc = "inventory" => unreachable_devices = {})
  /\ [][/\ unreachable_devices \subseteq unreachable_devices'
        /\ Cardinality(unreachable_devices' \ unreachable_devices) <= 1
        /\ unreachable_devices' \subseteq unreachable_devices \cup devices]_vars
  /\ [](\A d \in AllNames :
          fail_stage[d] # 0 \/ caught_failures(d) # {} => d \in unreachable_devices)

\* Two devices were inserted by tasks of the same stage, one of them by both
\* of its harvest tasks
C16_Witness ==
  \E d1, d2 \in unreachable_devices :
    /\ d1 # d2 /\ fail_stage[d1] = 2 /\ fail_stage[d2] = 2
    /\ Cardinality(caught_failures(d1)) = 2

(***************************************************************************)
(* C17: no device work without devices                                     *)
(***************************************************************************)

\* No session was opened, no task submitted, no file written, no topology
\* generated and no command run
no_device_work ==
  /\ sessions = {} /\ ~in_flight({probe, cfg, info, lldp})
  /\ \A d \in AllNames : caught_failures(d) = {} /\ fail_stage[d] = 0
  /\ config_files = {} /\ sn_files = {}
  /\ future_to_device = {} /\ all_links = << >>
  /\ ~topo_written /\ name_order = << >>
  /\ deploy_status = "notrun" /\ inspect_status = "notrun"

\* C17: unless the inventory query returned a non-empty device list there
\* is no device work at any time; a query that fails, by a site not found or
\* an error, and a query that finds no device each end the run at once, and
\* the two are told apart by what the query returned.
C17_InventoryFailureEndsRun ==
  /\ devices_result # "list" => no_device_work
  /\ devices_result \in {"None", "empty"} => mainpc = "done" /\ outcome = "returned"
  /\ devices_result = "None" => netbox # "ok"
  /\ devices_result = "empty" => netbox = "ok" /\ site_devices = {}

\* The run ended on a site that was not found
C17_Witness ==
  /\ devices_result = "None" /\ netbox = "nosite" /\ mainpc = "done" /\ outcome = "returned"

(***************************************************************************)
(* C18: the worker limit                                                   *)
(***************************************************************************)

\* Tasks waiting for a worker
Queued ==
  Cardinality({d \in DOMAIN probe : probe[d] = "queued"})
    + Cardinality({d \in DOMAIN cfg : cfg[d] = "queued"})
    + Cardinality({d \in DOMAIN info : info[d] = "queued"})
    + Cardinality({d \in DOMAIN lldp : lldp[d] = "queued"})

\* C18: at every moment of the probes, the harvest and the LLDP collection
\* at most MAX_WORKERS tasks are executing and at most MAX_WORKERS
\* management sessions are open, also when the config and info tasks of
\* the harvest, which share one executor, are more than MAX_WORKERS.
C18_WorkerLimit ==
  /\ Running <= MAX_WORKERS
  /\ Cardinality(sessions) <= MAX_WORKERS
  /\ Cardinality(sessions) = Running

\* All workers of the harvest executor are busy, with config and info tasks
\* among them, and tasks are waiting
C18_Witness ==
  /\ mainpc = "harvest" /\ Running = MAX_WORKERS /\ Queued > 0
  /\ \E d1, d2 \in devices : cfg[d1] = "open" /\ info[d2] = "open"

(***************************************************************************)
(* C19: the links do not depend on the order of the neighbor map           *)
(***************************************************************************)

\* The links of a list as unordered endpoint pairs
pairs(links) == {ends(links[i]) : i \in 1..Len(links)}

\* The neighbor map with the same entries inserted in every possible order
insertion_orders == Orders({all_links[i] : i \in 1..Len(all_links)})

\* The links the synthesizer makes of a neighbor map, with the run's device
\* set, failure set and set order
links_of(links_data) ==
  links_data_loop(NoLinks, name_order, unreachable_devices, links_data).final_links

\* C19: when generate_topology_file has returned, the same entries of the
\* neighbor map inserted in any other order give the same set of unordered
\* endpoint pairs and as many entries; only their order and orientation can
\* differ.
C19_OrderIndependent ==
  mainpc = "deploy" =>
    \A links_data \in insertion_orders :
      /\ pairs(links_of(links_data)) = pairs(final_links)
      /\ Len(links_of(links_data)) = Len(final_links)

\* Two links were synthesized from a map of two or more entries, and
\* another insertion order gives another list
C19_Witness ==
  /\ mainpc = "deploy" /\ Len(all_links) >= 2 /\ Cardinality(pairs(final_links)) >= 2
  /\ \E links_data \in insertion_orders : links_of(links_data) # final_links

(***************************************************************************)
(* C20: the keys of the neighbor map                                       *)
(***************************************************************************)

\* The synthesizer's `if local_device in unreachable_devices: continue`
\* (line 201) would skip an entry of the neighbor map
local_skip_fires == reporters \cap unreachable_devices # {}

\* C20: at all times, and so when synthesis starts, every key of the
\* neighbor map is a device of the run with a management address whose
\* LLDP future was submitted and folded, none is in the failure set, and so
\* the synthesizer's skip of unreachable local devices has nothing to skip.
C20_MapKeysAreLive ==
  /\ reporters \subseteq (devices \cap primary_ip) \ unreachable_devices
  /\ reporters \subseteq future_to_device \cap folded
  /\ ~local_skip_fires

\* Synthesis ran on a map with an entry, in a run where one device failed
\* during the LLDP collection and another has no management address
C20_Witness ==
  /\ topo_written /\ reporters # {}
  /\ \E d \in devices : d \in unreachable_devices /\ fail_stage[d] = 3
  /\ \E d \in devices : d \notin primary_ip

====
